---- MODULE Spec2Model ----
(***************************************************************************)
(* mpl-nonblock: the terminal key-wait / event-pump loop hold_windows()    *)
(* of src/mpl_nonblock/core.py, with its reader thread, its AnyKey         *)
(* detector and the terminal-mode scope _cbreak().                         *)
(*                                                                         *)
(* The main thread is a process whose position is pc; the stdin reader     *)
(* threads started by the calls run concurrently; the figures, the         *)
(* keyboard, standard input and the terminal are the environment.  Every   *)
(* collaborator call that can raise does so nondeterministically.          *)
(*                                                                         *)
(* show() and refresh() of core.py are atomic calls of the script; the     *)
(* backend classifier _is_gui_backend() of backends.py is computed on      *)
(* backend names spelt character by character; _warn_once() of _helpers.py *)
(* is the registry `warned` shared by all of them.                         *)
(***************************************************************************)
EXTENDS Integers, Sequences, FiniteSets, TLC

\* ------------------------------------------------------------------ bounds
MaxCalls  == 2   \* hold_windows calls made by the script, one after the other
MaxFigs   == 2   \* figures open when a call starts
MaxKeys   == 1   \* key presses buffered for the AnyKey detector
MaxPumps  == 2   \* the pump counters saturate here
MaxEmit   == 2   \* the per-key counters of emitted warnings saturate here

\* ------------------------------------------------------- value vocabularies
Triggers   == {"Enter", "AnyKey", "Bogus"}      \* "Bogus": any other value
Prompts    == {"DEFAULT", "NONE", "STR"}        \* _PROMPT_DEFAULT, None, a string
TtyAnswers == {"tty", "notty", "raise",          \* sys.stdin.isatty()
               "unasked"}                        \* isatty() is not called
Platforms  == {"win", "posix"}                  \* sys.platform.startswith("win")
Results    == {"ok", "raise"}                   \* outcome of a collaborator call
Blocks     == {"True", "False", "None"}         \* the argument block of show()
Pauses     == {"0.001", "0.05"}                 \* the argument pause; default 0.001
WarnKeys   == {"hold_windows:anykey_import",    \* the keys given to _warn_once
               "hold_windows:anykey_fileno",
               "refresh:plt_pause", "refresh:in_foreground",
               "show:plt_show", "show:plt_pause", "backend_str"}

VARIABLES
    pc,        \* position of the main thread
    callNo,    \* number of hold_windows calls started so far
    args,      \* arguments of the current call: trigger, prompt, only_if_tty
    mode,      \* trigger in effect: "none", "enter", "fallback", "win", "posix"
    entered,   \* the threading.Event `entered` of the current call
    reader,    \* reader thread of the current call: "none", "blocked", "set", "failed"
    orphans,   \* reader threads of earlier calls still blocked in readline()
    old,       \* `old` of _cbreak: "unset", "None", or the saved terminal mode
    exc,       \* an exception is propagating out of the with block
    outcome,   \* how the current call ended: "none", "returned", "ValueError", "raised"
    figs,      \* number of open figures (length of plt.get_fignums())
    keys,      \* key presses buffered for select()/kbhit()
    stdin,     \* standard input as readline() sees it: "empty", "line" or "eof"
    termMode,  \* terminal attributes of the stdin descriptor: "cooked" or "cbreak"
    warned,    \* _WARNED_ONCE
    h,         \* observations of the current call (history, read by no action)
    api,       \* the last show() / refresh() call: arguments, calls made, result
    emitted    \* warnings emitted so far, per key (history, read by no action)

vars == <<pc, callNo, args, mode, entered, reader, orphans, old, exc, outcome,
          figs, keys, stdin, termMode, warned, h, api, emitted>>

envVars == <<figs, keys, stdin>>

\* ------------------------------------------------------------ pure helpers
Min(a, b) == IF a < b THEN a ELSE b

\* a saturating counter
Bump(n) == Min(n + 1, MaxPumps)

\* a prompt choice that treats None as the omitted prompt
PromptText_NoneIsDefault(prompt, trigger) ==
    IF trigger = "AnyKey" THEN "Press any key to exit..." ELSE "Press Enter to exit..."

\* a default prompt that does not look at the trigger
PromptText_EnterOnly(prompt, trigger) ==
    IF prompt = "DEFAULT" THEN "Press Enter to exit..."
    ELSE IF prompt = "NONE" THEN "" ELSE "custom"

\* core.py 217-222: the prompt text chosen for the call ("" = nothing printed)
PromptText(prompt, trigger) ==
    IF prompt = "DEFAULT"
    THEN (IF trigger = "AnyKey" THEN "Press any key to exit..."
                                ELSE "Press Enter to exit...")
    ELSE IF prompt = "NONE" THEN "" ELSE "custom"

\* a call that skips the backend check of core.py 203-205
IsGuiGate_Skipped(gui) == TRUE

\* core.py 203-205: the backend gate
IsGuiGate(gui) == gui

\* a tty gate without the `except Exception: return` of core.py 211-212
TtyGate_NoExcept(only_if_tty, tty) == (~only_if_tty) \/ tty # "notty"

\* core.py 207-212: the tty gate lets the call go on
TtyGate(only_if_tty, tty) == (~only_if_tty) \/ tty = "tty"

\* core.py 214: trigger validation
ValidTrigger(trigger) == trigger \in {"Enter", "AnyKey"}

\* a _warn_once that forgets to record the key
warn_once_NoAdd(key, reg) == reg

\* _helpers.py 21-34: the registry after _warn_once(key)
warn_once(key, reg) == reg \cup {key}

\* _helpers.py 29-34: does _warn_once(key) emit a warning
warn_emits(key, reg) == key \notin reg

\* the registry after _warn_once has been called with each key of keys in turn
RECURSIVE warn_all(_, _)
warn_all(ks, reg) ==
    IF ks = <<>> THEN reg ELSE warn_all(Tail(ks), warn_once(Head(ks), reg))

\* the count of emitted warnings after those calls
RECURSIVE emit_all(_, _, _)
emit_all(ks, reg, em) ==
    IF ks = <<>> THEN em
    ELSE emit_all(Tail(ks), warn_once(Head(ks), reg),
                  IF warn_emits(Head(ks), reg)
                  THEN [em EXCEPT ![Head(ks)] = Min(@ + 1, MaxEmit)]
                  ELSE em)

\* a detector that reports itself supported although sys.stdin.fileno() failed
make_anykey_checker_NoFilenoCheck(platform, importOk, filenoOk) ==
    IF platform = "win"
    THEN (IF importOk THEN [kind |-> "win", supported |-> TRUE, key |-> ""]
          ELSE [kind |-> "none", supported |-> FALSE,
                key |-> "hold_windows:anykey_import"])
    ELSE IF ~importOk
    THEN [kind |-> "none", supported |-> FALSE, key |-> "hold_windows:anykey_import"]
    ELSE [kind |-> "posix", supported |-> TRUE,
          key |-> IF filenoOk THEN "" ELSE "hold_windows:anykey_fileno"]

\* core.py 243-318: _make_anykey_checker() -> the detector kind and the
\* warning key of the failed probe ("" when none)
make_anykey_checker(platform, importOk, filenoOk) ==
    IF platform = "win"
    THEN (IF importOk THEN [kind |-> "win", supported |-> TRUE, key |-> ""]
          ELSE [kind |-> "none", supported |-> FALSE,
                key |-> "hold_windows:anykey_import"])
    ELSE IF ~importOk
    THEN [kind |-> "none", supported |-> FALSE, key |-> "hold_windows:anykey_import"]
    ELSE IF ~filenoOk
    THEN [kind |-> "none", supported |-> FALSE, key |-> "hold_windows:anykey_fileno"]
    ELSE [kind |-> "posix", supported |-> TRUE, key |-> ""]

\* terminal.py 47-130: _make_anykey_checker() of the module terminal ->
\* the detector kind and the warning key of the failed probe
terminal_make_anykey_checker(platform, importOk, filenoOk) ==
    IF platform = "win"
    THEN (IF importOk THEN [kind |-> "win", supported |-> TRUE, key |-> ""]
          ELSE [kind |-> "none", supported |-> FALSE,
                key |-> "hold_windows:anykey_import"])
    ELSE IF ~importOk
    THEN [kind |-> "none", supported |-> FALSE, key |-> "hold_windows:anykey_import"]
    ELSE IF ~filenoOk
    THEN [kind |-> "none", supported |-> FALSE, key |-> "hold_windows:anykey_fileno"]
    ELSE [kind |-> "posix", supported |-> TRUE, key |-> ""]

\* terminal.py 15-44: _make_enterkey_checker(); start is the outcome of
\* threading.Thread(...).start().  A failing start is caught: one warning
\* key, supported False, a checker that always answers False, no exception.
terminal_make_enterkey_checker(start) ==
    IF start = "ok"
    THEN [supported |-> TRUE, threads |-> 1, key |-> "", raised |-> FALSE]
    ELSE [supported |-> FALSE, threads |-> 0, key |-> "hold_windows:enter_thread",
          raised |-> FALSE]

\* _any_figures_open() testing the function object instead of its result
any_figures_open_NoCall(r, n) == r = "ok"

\* core.py 333-337: _any_figures_open()
any_figures_open(r, n) == r = "ok" /\ n > 0

\* a loop condition that does not look at the flag
AfterFlag_Ignored(e) == "chk_figs"

\* a loop condition without the window check
AfterFlag_SkipFigures(e) == IF e THEN "exit_ctx" ELSE "chk_key"

\* core.py 340: where the loop goes after `not entered.is_set()`
AfterFlag(e) == IF e THEN "exit_ctx" ELSE "chk_figs"

\* a key check without the `break` of core.py 343
AfterPoll_NoBreak(hit) == "pump"

\* core.py 341-343: where the loop goes after the key check
AfterPoll(hit) == IF hit THEN "exit_ctx" ELSE "pump"

\* ------------------------------------------------------- backend names
\* A backend name is a sequence of one-character strings, so that lower(),
\* strip(), endswith() and `in` are computed character by character.
UpperCase == <<"A", "B", "C", "D", "E", "F", "G", "H", "I", "J", "K", "L", "M", "N", "O", "P", "Q", "R", "S", "T", "U", "V", "W", "X", "Y", "Z">>

LowerCase == <<"a", "b", "c", "d", "e", "f", "g", "h", "i", "j", "k", "l", "m", "n", "o", "p", "q", "r", "s", "t", "u", "v", "w", "x", "y", "z">>

WhiteSpace == {" "}

\* str.lower() on one character
lower_char(c) ==
    IF \E i \in 1..Len(UpperCase) : UpperCase[i] = c
    THEN LowerCase[CHOOSE i \in 1..Len(UpperCase) : UpperCase[i] = c]
    ELSE c

\* str.upper() on one character
upper_char(c) ==
    IF \E i \in 1..Len(LowerCase) : LowerCase[i] = c
    THEN UpperCase[CHOOSE i \in 1..Len(LowerCase) : LowerCase[i] = c]
    ELSE c

\* str.lower()
lower(s) == [i \in 1..Len(s) |-> lower_char(s[i])]

\* str.upper()
upper(s) == [i \in 1..Len(s) |-> upper_char(s[i])]

\* str.lstrip()
RECURSIVE lstrip(_)
lstrip(s) ==
    IF s # <<>> /\ Head(s) \in WhiteSpace THEN lstrip(Tail(s)) ELSE s

\* str.rstrip()
RECURSIVE rstrip(_)
rstrip(s) ==
    IF s # <<>> /\ s[Len(s)] \in WhiteSpace
    THEN rstrip(SubSeq(s, 1, Len(s) - 1)) ELSE s

\* str.strip()
strip(s) == rstrip(lstrip(s))

\* s.endswith(suf)
endswith(s, suf) ==
    /\ Len(suf) <= Len(s)
    /\ SubSeq(s, Len(s) - Len(suf) + 1, Len(s)) = suf

\* s.startswith(pre)
startswith(s, pre) ==
    /\ Len(pre) <= Len(s)
    /\ SubSeq(s, 1, Len(pre)) = pre

\* `sub in s`
contains(s, sub) ==
    \E i \in 1..(Len(s) - Len(sub) + 1) : SubSeq(s, i, i + Len(sub) - 1) = sub

\* backends.py 40-51: the set non_gui
non_gui ==
    { <<"a", "g", "g">>,
      <<"m", "o", "d", "u", "l", "e", ":", "/", "/", "m", "a", "t", "p", "l", "o", "t", "l", "i", "b", "_", "i", "n", "l", "i", "n", "e", ".", "b", "a", "c", "k", "e", "n", "d", "_", "i", "n", "l", "i", "n", "e">>,
      <<"i", "n", "l", "i", "n", "e">>,
      <<"n", "b", "a", "g", "g">>,
      <<"w", "e", "b", "a", "g", "g">>,
      <<"p", "d", "f">>,
      <<"p", "s">>,
      <<"s", "v", "g">>,
      <<"c", "a", "i", "r", "o">>,
      <<"t", "e", "m", "p", "l", "a", "t", "e">> }

Str_matplotlib_inline == <<"m", "a", "t", "p", "l", "o", "t", "l", "i", "b", "_", "i", "n", "l", "i", "n", "e">>

Str_backend_inline == <<"b", "a", "c", "k", "e", "n", "d", "_", "i", "n", "l", "i", "n", "e">>

Str_macosx == <<"m", "a", "c", "o", "s", "x">>

Str_agg == <<"a", "g", "g">>

Str_unknown == <<"u", "n", "k", "n", "o", "w", "n">>

\* _is_gui_backend testing the "agg" suffix before the set non_gui
is_gui_backend_SuffixFirst(backend) ==
    LET b == strip(lower(backend))
    IN  IF endswith(b, Str_agg) THEN TRUE
        ELSE IF b \in non_gui THEN FALSE
        ELSE b = Str_macosx

\* _is_gui_backend without the special case of backends.py 58-59
is_gui_backend_NoMacosx(backend) ==
    LET b == strip(lower(backend))
    IN  IF b \in non_gui THEN FALSE
        ELSE IF contains(b, Str_matplotlib_inline) THEN FALSE
        ELSE IF contains(b, Str_backend_inline) THEN FALSE
        ELSE IF endswith(b, Str_agg) THEN TRUE
        ELSE FALSE

\* backends.py 32-64: _is_gui_backend(backend)
is_gui_backend(backend) ==
    LET b == strip(lower(backend))
    IN  IF b \in non_gui THEN FALSE
        ELSE IF contains(b, Str_matplotlib_inline) THEN FALSE
        ELSE IF contains(b, Str_backend_inline) THEN FALSE
        ELSE IF b = Str_macosx THEN TRUE
        ELSE IF endswith(b, Str_agg) THEN TRUE
        ELSE FALSE

\* backends.py 20-21: what matplotlib.get_backend() did in the call: it
\* returned the string answer, or it raised and returned nothing
get_backend(gb, name) == [gb |-> gb, answer |-> IF gb = "ok" THEN name ELSE <<>>]

\* a _backend_str() that normalises the name it returns
backend_str_Lowered(gb, name) == IF gb = "ok" THEN lower(name) ELSE Str_unknown

\* backends.py 16-29: _backend_str(); gb is the outcome of
\* matplotlib.get_backend() and name the string it returns
backend_str(gb, name) == IF gb = "ok" THEN name ELSE Str_unknown

\* backends.py 23-28: the key _backend_str() gives to _warn_once
backend_str_keys(gb) == IF gb = "ok" THEN <<>> ELSE <<"backend_str">>

\* the official interactive GUI backend names of Matplotlib
OfficialGuiBackends ==
    { <<"G", "T", "K", "3", "A", "g", "g">>,
      <<"G", "T", "K", "3", "C", "a", "i", "r", "o">>,
      <<"G", "T", "K", "4", "A", "g", "g">>,
      <<"G", "T", "K", "4", "C", "a", "i", "r", "o">>,
      <<"M", "a", "c", "O", "S", "X">>,
      <<"Q", "t", "A", "g", "g">>,
      <<"Q", "t", "C", "a", "i", "r", "o">>,
      <<"Q", "t", "5", "A", "g", "g">>,
      <<"Q", "t", "5", "C", "a", "i", "r", "o">>,
      <<"T", "k", "A", "g", "g">>,
      <<"T", "k", "C", "a", "i", "r", "o">>,
      <<"W", "X">>,
      <<"W", "X", "A", "g", "g">>,
      <<"W", "X", "C", "a", "i", "r", "o">> }

\* names of backends that open no window, and the "unknown" of backends.py 29
OtherBackends ==
    { <<"A", "g", "g">>,
      <<"c", "a", "i", "r", "o">>,
      <<"p", "d", "f">>,
      <<"p", "g", "f">>,
      <<"p", "s">>,
      <<"i", "n", "l", "i", "n", "e">>,
      <<"m", "o", "d", "u", "l", "e", ":", "/", "/", "m", "a", "t", "p", "l", "o", "t", "l", "i", "b", "_", "i", "n", "l", "i", "n", "e", ".", "b", "a", "c", "k", "e", "n", "d", "_", "i", "n", "l", "i", "n", "e">>,
      <<"n", "b", "A", "g", "g">>,
      <<"n", "o", "t", "e", "b", "o", "o", "k">>,
      <<"W", "e", "b", "A", "g", "g">>,
      <<"s", "v", "g">>,
      <<"u", "n", "k", "n", "o", "w", "n">> }

\* the backend strings matplotlib.get_backend() may return: each name as it
\* is, in lower case and in upper case, bare or padded with a blank
BackendStrings ==
    LET names == OfficialGuiBackends \cup OtherBackends
        cased == names \cup {lower(n) : n \in names} \cup {upper(n) : n \in names}
    IN  cased \cup {<<" ">> \o n : n \in cased} \cup {n \o <<" ">> : n \in cased}


\* ---------------------------------------------------- raising a window
\* A figure as the raise helpers see it: canvas is "None" or "obj"; manager
\* is what fig.canvas.manager gives; raise_window is the manager attribute of
\* that name ("absent", "notcallable", or a callable that returns "ok" or
\* raises); window is mgr.window; m1, m2, m3 are the raise methods of the
\* backend in their order of call ("absent", or callable returning or raising).
NoFig == [canvas |-> "None", manager |-> "None", raise_window |-> "absent",
          window |-> "None", m1 |-> "absent", m2 |-> "absent", m3 |-> "absent"]

Str_qtagg == <<"q", "t", "a", "g", "g">>

Str_qt == <<"q", "t">>

Str_tkagg == <<"t", "k", "a", "g", "g">>

Str_tk == <<"t", "k">>

\* a handler that lets the exception through
Swallow_Reraise(e) == e

\* `except Exception: pass` / `except Exception: return` of backends.py
\* 91-92, 120-121, 142-143, 161-162: the exception stops here
Swallow(e) == FALSE

Called(name) == [fn |-> name, arg |-> "()"]

\* the calls `getattr(obj, name, None)` + `if callable(f): f()` make for each
\* method in turn, up to and including the first one that raises
RECURSIVE call_methods(_, _)
call_methods(names, outs) ==
    IF names = <<>> THEN [calls |-> <<>>, exc |-> FALSE]
    ELSE IF Head(outs) = "absent" THEN call_methods(Tail(names), Tail(outs))
    ELSE IF Head(outs) = "raise"
    THEN [calls |-> <<Called(Head(names))>>, exc |-> TRUE]
    ELSE LET rest == call_methods(Tail(names), Tail(outs))
         IN  [calls |-> <<Called(Head(names))>> \o rest.calls, exc |-> rest.exc]

\* tracker backends.py 112-121 (mpl_nonblock backends.py 115-124): _raise_macosx
raise_macosx(fig) ==
    LET body == IF fig.canvas = "None" THEN [calls |-> <<>>, exc |-> TRUE]
                ELSE IF fig.manager = "None" THEN [calls |-> <<>>, exc |-> FALSE]
                ELSE call_methods(<<"mgr._raise">>, <<fig.m1>>)
    IN  [calls |-> <<Called("_raise_macosx")>> \o body.calls,
         exc |-> Swallow(body.exc)]

\* tracker backends.py 124-143 (mpl_nonblock backends.py 127-146): _raise_qt
raise_qt(fig) ==
    LET body == IF fig.canvas = "None" THEN [calls |-> <<>>, exc |-> TRUE]
                ELSE IF fig.manager = "None" \/ fig.window = "None"
                THEN [calls |-> <<>>, exc |-> FALSE]
                ELSE call_methods(<<"win.show", "win.raise_", "win.activateWindow">>,
                                  <<fig.m1, fig.m2, fig.m3>>)
    IN  [calls |-> <<Called("_raise_qt")>> \o body.calls,
         exc |-> Swallow(body.exc)]

\* tracker backends.py 146-162 (mpl_nonblock backends.py 149-165): _raise_tk
raise_tk(fig) ==
    LET body == IF fig.canvas = "None" THEN [calls |-> <<>>, exc |-> TRUE]
                ELSE IF fig.manager = "None" \/ fig.window = "None"
                THEN [calls |-> <<>>, exc |-> FALSE]
                ELSE call_methods(<<"win.lift", "win.focus_force">>,
                                  <<fig.m1, fig.m2>>)
    IN  [calls |-> <<Called("_raise_tk")>> \o body.calls,
         exc |-> Swallow(body.exc)]

\* tracker backends.py 94-99 (mpl_nonblock backends.py 97-102): the backend
\* name the dispatch looks at
raise_backend(gb, name) == IF gb = "ok" THEN lower(name) ELSE <<>>

\* tracker backends.py 101-109 (mpl_nonblock backends.py 104-112): the
\* backend-specific helper the dispatch picks
raise_dispatch(fig, b) ==
    IF contains(b, Str_macosx) THEN raise_macosx(fig)
    ELSE IF contains(b, Str_qtagg) \/ startswith(b, Str_qt) THEN raise_qt(fig)
    ELSE IF contains(b, Str_tkagg) \/ startswith(b, Str_tk) THEN raise_tk(fig)
    ELSE [calls |-> <<>>, exc |-> FALSE]

\* tracker backends.py 85-92: the manager's own raise_window() is tried
\* first; done says that the function returns at line 90
ManagerFirst(fig) ==
    LET body == IF fig.canvas = "None" THEN [calls |-> <<>>, exc |-> TRUE]
                ELSE IF fig.manager = "None" THEN [calls |-> <<>>, exc |-> FALSE]
                ELSE call_methods(<<"mgr.raise_window">>,
                                  <<IF fig.raise_window = "notcallable" THEN "absent"
                                    ELSE fig.raise_window>>)
    IN  [calls |-> body.calls, exc |-> Swallow(body.exc),
         done |-> body.calls # <<>> /\ ~body.exc]

\* ------------------------------------------------- recommending a backend
Str_darwin == <<"d", "a", "r", "w", "i", "n">>

Str_linux == <<"l", "i", "n", "u", "x">>

Str_win == <<"w", "i", "n">>

Str_TkAgg == <<"T", "k", "A", "g", "g">>

\* mpl_nonblock backends.py 69-72: the defaults of the keyword arguments
DefaultBackend ==
    [macos |-> Str_macosx, linux |-> Str_TkAgg, windows |-> Str_TkAgg,
     other |-> Str_TkAgg]

\* a keyword argument that was left out takes its default
kwarg(given, key) == IF key \in DOMAIN given THEN given[key] ELSE DefaultBackend[key]

\* a platform test that looks for "win" anywhere in the name
recommended_backend_WinAnywhere(plat, macos, linux, windows, other) ==
    IF plat = Str_darwin THEN macos
    ELSE IF startswith(plat, Str_linux) THEN linux
    ELSE IF contains(plat, Str_win) THEN windows
    ELSE other

\* mpl_nonblock backends.py 67-87: recommended_backend(); plat is sys.platform
recommended_backend(plat, macos, linux, windows, other) ==
    IF plat = Str_darwin THEN macos
    ELSE IF startswith(plat, Str_linux) THEN linux
    ELSE IF startswith(plat, Str_win) THEN windows
    ELSE other

\* matplotlib_window_tracker backends.py 43-67: recommended_backend() of the
\* window tracker.  gb and name are the answer of matplotlib.get_backend(),
\* mplbackend whether os.environ.get("MPLBACKEND") is a non-empty string,
\* pyplot whether "matplotlib.pyplot" is in sys.modules.  The platform part
\* (59-67) is the text of mpl_nonblock's recommended_backend.
tracker_recommended_backend(gb, name, respect_existing, mplbackend, pyplot, plat, macos, linux, windows, other) ==
    LET current == IF gb = "ok" THEN name ELSE <<>>
    IN  IF respect_existing /\ mplbackend THEN current
        ELSE IF respect_existing /\ pyplot THEN current
        ELSE recommended_backend(plat, macos, linux, windows, other)

\* matplotlib_window_tracker backends.py 45-53: the keys handed to _warn_once
tracker_warn_keys(gb) ==
    IF gb = "raise" THEN <<"recommended_backend:get_backend">> ELSE <<>>

\* ------------------------------------------------------------------- state
H0 == [gui |-> TRUE, tty |-> "unasked",
       termAtEntry |-> "cooked", figsAtEntry |-> 0, lineAtEntry |-> FALSE,
       probe |-> "",
       prompts |-> 0, promptText |-> "",
       starts |-> 0, threads |-> 0, reads |-> 0, sets |-> 0,
       tcget |-> 0, setcb |-> 0, tcset |-> 0, tcsetArg |-> "", tcsetRaised |-> FALSE,
       pumpCalls |-> 0, pumpsEmpty |-> 0, pumpsFlag |-> 0, tick |-> <<>>,
       hasLoop |-> FALSE, handler |-> FALSE,
       polls |-> 0, truePoll |-> FALSE, consumed |-> 0, blocked |-> FALSE,
       pumpRaised |-> FALSE,
       exitReason |-> "none", warnings |-> 0]

NoStatus == [backend |-> <<>>, nonblocking_requested |-> FALSE,
             nonblocking_used |-> FALSE, reason |-> ""]

Api0 == [fn |-> "none", input |-> "none", block |-> "False", pause |-> "0.001",
         in_foreground |-> FALSE, gui |-> FALSE,
         calls |-> <<>>, failed |-> {}, keys |-> <<>>,
         raised |-> FALSE, status |-> NoStatus]

Init ==
    /\ pc = "idle"
    /\ callNo = 0
    /\ args = [trigger |-> "AnyKey", prompt |-> "DEFAULT", only_if_tty |-> TRUE]
    /\ mode = "none"
    /\ entered = FALSE
    /\ reader = "none"
    /\ orphans = 0
    /\ old = "unset"
    /\ exc = FALSE
    /\ outcome = "none"
    /\ figs = 0
    /\ keys = 0
    /\ stdin = "empty"
    /\ termMode = "cooked"
    /\ warned = {}
    /\ h = H0
    /\ api = Api0
    /\ emitted = [k \in WarnKeys |-> 0]

\* ----------------------------------------------------------------- actions

\* a trigger setup that hands the raw-mode scope to every kind of trigger
key_ctx_AlwaysCbreak(m) == "cbreak"

\* core.py 266, 318, 322, 330: the context manager key_ctx of the trigger in
\* effect: _cbreak() for the POSIX detector, contextlib.nullcontext() otherwise
key_ctx(m) == IF m = "posix" THEN "cbreak" ELSE "nullcontext"

\* core.py 172-224: the call, up to and including the prompt.  gb is the
\* outcome of matplotlib.get_backend() in _backend_str(), gui the answer of
\* _is_gui_backend (False for the "unknown" of a failed get_backend()), tty the answer of sys.stdin.isatty(), nfigs the
\* number of figures the script has open when it calls.
hold_windows(trigger, prompt, only_if_tty, gb, gui, tty, nfigs) ==
    /\ pc \in {"idle", "done"}
    /\ gb = "raise" => gui = is_gui_backend(backend_str(gb, <<>>))
    /\ warned' = warn_all(backend_str_keys(gb), warned)
    /\ emitted' = emit_all(backend_str_keys(gb), warned, emitted)
    /\ (tty = "unasked") <=> ~(IsGuiGate(gui) /\ only_if_tty)
    /\ callNo' = callNo + 1
    /\ args' = [trigger |-> trigger, prompt |-> prompt, only_if_tty |-> only_if_tty]
    /\ figs' = nfigs
    /\ LET gated == IsGuiGate(gui) /\ TtyGate(only_if_tty, tty)
           go    == gated /\ ValidTrigger(trigger)
           text  == PromptText(prompt, trigger)
       IN  /\ pc' = IF go THEN "setup" ELSE "done"
           /\ outcome' = IF go THEN "none"
                         ELSE IF gated THEN "ValueError" ELSE "returned"
           /\ h' = [H0 EXCEPT !.gui = gui, !.tty = tty,
                              !.termAtEntry = termMode,
                              !.figsAtEntry = nfigs,
                              !.lineAtEntry = (trigger = "Enter" /\ stdin # "empty"),
                              !.prompts = IF go /\ text # "" THEN 1 ELSE 0,
                              !.promptText = IF go THEN text ELSE "",
                              !.warnings = IF gb = "raise"
                                              /\ warn_emits("backend_str", warned)
                                           THEN 1 ELSE 0,
                              !.exitReason = IF go THEN "none"
                                             ELSE IF ~IsGuiGate(gui) THEN "nongui"
                                             ELSE IF ~gated THEN "notty"
                                             ELSE "invalid"]
    /\ mode' = "none"
    /\ entered' = FALSE
    /\ old' = "unset"
    /\ exc' = FALSE
    /\ reader' = "none"
    /\ orphans' = IF reader = "blocked" THEN orphans + 1 ELSE orphans
    /\ UNCHANGED <<keys, stdin, termMode, api>>

\* a setup that starts the reader thread for every trigger
StartsReader_Always(trigger, supported) == TRUE

\* core.py 320-321, 327-328: the reader thread is started for
\* trigger == "Enter" and for an unsupported AnyKey
StartsReader(trigger, supported) == trigger = "Enter" \/ ~supported

\* core.py 320-331 (with 243-289): the trigger is set up.  start is the
\* outcome of threading.Thread(...).start().
setup_trigger(platform, importOk, filenoOk, start) ==
    /\ pc = "setup"
    /\ LET any      == make_anykey_checker(platform, importOk, filenoOk)
           useEnter == StartsReader(args.trigger, any.supported)
           key      == IF args.trigger = "AnyKey" THEN any.key ELSE ""
           emits    == key # "" /\ warn_emits(key, warned)
       IN  /\ useEnter \/ start = "ok"
           /\ warned' = IF key # "" THEN warn_once(key, warned) ELSE warned
           /\ emitted' = IF key # "" THEN emit_all(<<key>>, warned, emitted)
                          ELSE emitted
           /\ IF start = "ok"
              THEN /\ pc' = "enter_ctx"
                   /\ outcome' = outcome
                   /\ mode' = IF args.trigger = "Enter" THEN "enter"
                              ELSE IF ~any.supported THEN "fallback" ELSE any.kind
                   /\ reader' = IF useEnter THEN "blocked" ELSE reader
                   /\ h' = [h EXCEPT !.starts = IF useEnter THEN 1 ELSE 0,
                                     !.threads = IF useEnter THEN 1 ELSE 0,
                                     !.probe = key,
                                     !.warnings = IF emits THEN 1 ELSE 0]
              ELSE /\ pc' = "done"
                   /\ outcome' = "raised"
                   /\ mode' = mode
                   /\ reader' = reader
                   /\ h' = [h EXCEPT !.starts = 1,
                                     !.probe = key,
                                     !.warnings = IF emits THEN 1 ELSE 0,
                                     !.exitReason = "thread_error"]
    /\ UNCHANGED <<callNo, args, entered, orphans, old, exc, envVars, termMode, api>>

\* core.py 339 and 291-300: `with key_ctx:` is entered.  g is the outcome of
\* termios.tcgetattr, s the outcome of tty.setcbreak; a failing setcbreak
\* leaves the terminal as it was and unwinds through the finally clause.
cbreak_enter(g, s) ==
    /\ pc = "enter_ctx"
    /\ UNCHANGED <<api, emitted>>
    /\ IF key_ctx(mode) = "cbreak"
       THEN /\ old' = IF g = "ok" THEN termMode ELSE "None"
            /\ termMode' = IF s = "ok" THEN "cbreak" ELSE termMode
            /\ exc' = (s = "raise")
            /\ pc' = IF s = "ok" THEN "chk_flag" ELSE "exit_ctx"
            /\ h' = [h EXCEPT !.tcget = 1, !.setcb = 1,
                              !.exitReason = IF s = "ok" THEN "none"
                                             ELSE "setcbreak_error"]
       ELSE /\ g = "ok" /\ s = "ok"
            /\ pc' = "chk_flag"
            /\ UNCHANGED <<old, termMode, exc, h>>
    /\ UNCHANGED <<callNo, args, mode, entered, reader, orphans, outcome, envVars, warned>>

\* a finally clause that never restores
restore_old_Never(o) == FALSE

\* a restore whose failure leaves the with block as an exception
ExitOutcome_RestoreRaises(e, t) == IF e \/ t = "raise" THEN "raised" ELSE "returned"

\* core.py 303-306 and 339: how the call ends when the with block is left.
\* e: an exception is on its way out of the block; t: the outcome of
\* termios.tcsetattr, whose exception `except Exception: pass` drops
ExitOutcome(e, t) == IF e THEN "raised" ELSE "returned"

\* core.py 302: `if old is not None`, for the old of a scope that was entered
restore_old(o) == o \notin {"unset", "None"}

\* core.py 301-306 and the end of the with block: the scope is left and the
\* call ends.  t is the outcome of termios.tcsetattr.
cbreak_exit(t) ==
    /\ pc = "exit_ctx"
    /\ UNCHANGED <<api, emitted>>
    /\ IF key_ctx(mode) = "cbreak" /\ restore_old(old)
       THEN /\ termMode' = IF t = "ok" THEN old ELSE termMode
            /\ h' = [h EXCEPT !.tcset = h.tcset + 1, !.tcsetArg = old,
                              !.tcsetRaised = (t = "raise")]
       ELSE /\ t = "ok"
            /\ UNCHANGED <<termMode, h>>
    /\ pc' = "done"
    /\ outcome' = ExitOutcome(exc, t)
    /\ UNCHANGED <<callNo, args, mode, entered, reader, orphans, old, exc, envVars, warned>>

\* core.py 340, first conjunct: `not entered.is_set()`
loop_check_entered ==
    /\ pc = "chk_flag"
    /\ UNCHANGED <<api, emitted>>
    /\ pc' = AfterFlag(entered)
    /\ h' = [h EXCEPT !.tick = <<"entered">>,
                      !.hasLoop = FALSE, !.handler = FALSE,
                      !.exitReason = IF AfterFlag(entered) = "exit_ctx" THEN "flag"
                                     ELSE h.exitReason]
    /\ UNCHANGED <<callNo, args, mode, entered, reader, orphans, old, exc, outcome,
                   envVars, termMode, warned>>

\* core.py 340, second conjunct: `_any_figures_open()`; r is the outcome of
\* plt.get_fignums()
loop_check_figures(r) ==
    /\ pc = "chk_figs"
    /\ UNCHANGED <<api, emitted>>
    /\ pc' = IF any_figures_open(r, figs) THEN "chk_key" ELSE "exit_ctx"
    /\ h' = [h EXCEPT !.tick = Append(h.tick, "figures"),
                      !.exitReason = IF any_figures_open(r, figs) THEN h.exitReason
                                     ELSE IF r = "ok" THEN "windows"
                                     ELSE "fignums_error"]
    /\ UNCHANGED <<callNo, args, mode, entered, reader, orphans, old, exc, outcome,
                   envVars, termMode, warned>>

\* _pressed() whose readiness check watches no descriptor
pressed_NeverReady(ready, rd, n, eof) == FALSE

\* core.py 255-264 and 308-316: _pressed().  ready is the outcome of the
\* readiness check (kbhit / select with timeout 0), rd the outcome of the
\* read of one key (getwch / sys.stdin.read(1)), n the keys buffered, eof
\* whether the descriptor select watches is at end of file: select reports
\* it readable, read(1) returns "" and the result is not looked at.
pressed(ready, rd, n, eof) == ready = "ok" /\ (n > 0 \/ eof) /\ rd = "ok"

\* core.py 308-310: the POSIX detector watches sys.stdin, which is readable
\* at end of file; msvcrt.kbhit() looks at the console keys only
SelectSeesEof(m, in) == m = "posix" /\ in = "eof"

\* core.py 230 against 309-312: a reader thread left blocked in
\* sys.stdin.readline() by an earlier call reads the same descriptor, without
\* synchronisation with the loop thread.  Between a select() that reported a
\* key and the read(1) that follows it, such a reader can take the key.
CanBeStolen(m, nOrphans, n) == m = "posix" /\ nOrphans > 0 /\ n > 0

\* core.py 341-343: `if trigger == "AnyKey" and key_pressed()`.  race says
\* whether a left-over reader takes the key after select() has reported it:
\* the read(1) of the loop thread then finds nothing and blocks.
loop_check_key(ready, rd, race) ==
    /\ pc = "chk_key"
    /\ UNCHANGED <<api, emitted>>
    /\ race = "none"
    /\ LET polled == args.trigger = "AnyKey" /\ mode \in {"win", "posix"}
           eof    == SelectSeesEof(mode, stdin)
           reads  == polled /\ ready = "ok" /\ (keys > 0 \/ eof)
           hit    == polled /\ pressed(ready, rd, keys, eof)
           took   == hit /\ keys > 0
       IN  /\ polled \/ ready = "ok"
           /\ reads \/ rd = "ok"
           /\ keys' = IF took THEN keys - 1 ELSE keys
           /\ entered' = (entered \/ hit)
           /\ pc' = AfterPoll(hit)
           /\ h' = [h EXCEPT !.tick = IF polled THEN Append(h.tick, "poll")
                                       ELSE h.tick,
                             !.polls = IF polled THEN Bump(h.polls) ELSE h.polls,
                             !.truePoll = hit,
                             !.consumed = IF took THEN h.consumed + 1 ELSE h.consumed,
                             !.exitReason = IF AfterPoll(hit) = "exit_ctx" THEN "key"
                                            ELSE h.exitReason]
    /\ UNCHANGED <<callNo, args, mode, reader, orphans, old, exc, outcome,
                   figs, stdin, termMode, warned>>

\* core.py 309-312 with the key taken by a left-over reader: select()
\* reported the key, the reader's readline() consumed it, and the loop thread
\* enters sys.stdin.read(1) with nothing to read
loop_check_key_stolen(ready, race) ==
    /\ pc = "chk_key"
    /\ UNCHANGED <<api, emitted>>
    /\ race = "stolen" /\ ready = "ok"
    /\ args.trigger = "AnyKey"
    /\ CanBeStolen(mode, orphans, keys)
    /\ keys' = keys - 1
    /\ pc' = "read_blocked"
    /\ h' = [h EXCEPT !.tick = Append(h.tick, "poll"),
                      !.polls = Bump(h.polls),
                      !.blocked = TRUE]
    /\ UNCHANGED <<callNo, args, mode, entered, reader, orphans, old, exc, outcome,
                   figs, stdin, termMode, warned>>

\* core.py 312-313: the blocked sys.stdin.read(1) of the loop thread returns
\* when the next key arrives or at end of file, and the poll reports true;
\* an exception of the read makes it report false (314-315)
read_returns(rd) ==
    /\ pc = "read_blocked"
    /\ UNCHANGED <<api, emitted>>
    /\ keys > 0 \/ stdin = "eof"
    /\ LET hit  == rd = "ok"
           took == hit /\ keys > 0
       IN  /\ keys' = IF took THEN keys - 1 ELSE keys
           /\ entered' = (entered \/ hit)
           /\ pc' = AfterPoll(hit)
           /\ h' = [h EXCEPT !.truePoll = hit,
                             !.consumed = IF took THEN h.consumed + 1 ELSE h.consumed,
                             !.exitReason = IF AfterPoll(hit) = "exit_ctx" THEN "key"
                                            ELSE h.exitReason]
    /\ UNCHANGED <<callNo, args, mode, reader, orphans, old, exc, outcome,
                   figs, stdin, termMode, warned>>

\* a pump step whose except clause calls the primitive of the try block again
PumpPath_RetrySame(n, gf, fg, hasLoop, p1, p2) ==
    LET figOk    == gf = "ok" /\ n > 0 /\ fg = "ok"
        useLoop  == figOk /\ hasLoop
        tryPause == gf = "ok" /\ (n = 0 \/ (fg = "ok" /\ ~hasLoop))
        prim     == useLoop \/ tryPause
        handler  == gf = "raise" \/ (gf = "ok" /\ n > 0 /\ fg = "raise")
                    \/ (prim /\ p1 = "raise")
    IN  [calls  |-> (IF useLoop THEN <<"start_event_loop">> ELSE <<>>)
                    \o (IF tryPause THEN <<"pause">> ELSE <<>>)
                    \o (IF handler
                        THEN (IF useLoop THEN <<"start_event_loop">> ELSE <<"pause">>)
                        ELSE <<>>),
         handler |-> handler,
         raised |-> handler /\ p2 = "raise",
         \* every outcome given is the outcome of a call that is made
         real   |-> /\ (gf = "ok" /\ n > 0) \/ fg = "ok"
                    /\ figOk \/ ~hasLoop
                    /\ prim \/ p1 = "ok"
                    /\ handler \/ p2 = "ok"]

\* core.py 346-361: one event-pump step as the primitive calls it makes.
\* gf: plt.get_fignums(), fg: plt.figure(fignums[0]), hasLoop: the canvas has
\* a callable start_event_loop, p1: the primitive called in the try block,
\* p2: the plt.pause(poll) of the except clause.
PumpPath(n, gf, fg, hasLoop, p1, p2) ==
    LET figOk    == gf = "ok" /\ n > 0 /\ fg = "ok"
        useLoop  == figOk /\ hasLoop
        tryPause == gf = "ok" /\ (n = 0 \/ (fg = "ok" /\ ~hasLoop))
        prim     == useLoop \/ tryPause
        handler  == gf = "raise" \/ (gf = "ok" /\ n > 0 /\ fg = "raise")
                    \/ (prim /\ p1 = "raise")
    IN  [calls  |-> (IF useLoop THEN <<"start_event_loop">> ELSE <<>>)
                    \o (IF tryPause THEN <<"pause">> ELSE <<>>)
                    \o (IF handler THEN <<"pause">> ELSE <<>>),
         handler |-> handler,
         raised |-> handler /\ p2 = "raise",
         \* every outcome given is the outcome of a call that is made
         real   |-> /\ (gf = "ok" /\ n > 0) \/ fg = "ok"
                    /\ figOk \/ ~hasLoop
                    /\ prim \/ p1 = "ok"
                    /\ handler \/ p2 = "ok"]

\* core.py 345-361: the pump step of a tick
pump(gf, fg, hasLoop, p1, p2) ==
    /\ pc = "pump"
    /\ UNCHANGED <<api, emitted>>
    /\ LET path == PumpPath(figs, gf, fg, hasLoop, p1, p2)
       IN  /\ path.real
           /\ exc' = path.raised
           /\ pc' = IF path.raised THEN "exit_ctx" ELSE "chk_flag"
           /\ h' = [h EXCEPT !.pumpCalls = Bump(h.pumpCalls),
                             !.pumpsEmpty = IF figs = 0 THEN Bump(h.pumpsEmpty)
                                            ELSE h.pumpsEmpty,
                             !.pumpsFlag = IF entered THEN Bump(h.pumpsFlag)
                                           ELSE h.pumpsFlag,
                             !.tick = h.tick \o path.calls,
                             !.hasLoop = hasLoop,
                             !.handler = path.handler,
                             !.pumpRaised = path.raised,
                             !.exitReason = IF path.raised THEN "pump_error"
                                            ELSE h.exitReason]
    /\ UNCHANGED <<callNo, args, mode, entered, reader, orphans, old, outcome,
                   envVars, termMode, warned>>

\* core.py 228-233: the body of _wait_for_enter(); r is the outcome of
\* sys.stdin.readline(), which returns once a line is buffered or standard
\* input is at end of file.  The result is whether the flag gets set.
wait_for_enter(r) == r = "ok"

\* the reader thread of the current call runs
reader_runs(r) ==
    /\ reader = "blocked"
    /\ UNCHANGED <<api, emitted>>
    /\ r = "ok" => stdin # "empty"
    /\ stdin' = IF r = "ok" /\ stdin = "line" THEN "empty" ELSE stdin
    /\ reader' = IF wait_for_enter(r) THEN "set" ELSE "failed"
    /\ entered' = (entered \/ wait_for_enter(r))
    /\ h' = [h EXCEPT !.reads = h.reads + 1,
                      !.sets = IF wait_for_enter(r) THEN h.sets + 1 ELSE h.sets]
    /\ UNCHANGED <<pc, callNo, args, mode, orphans, old, exc, outcome,
                   figs, keys, termMode, warned>>

\* a reader thread left over by an earlier call runs; the Event it sets
\* belongs to that call
orphan_runs(r) ==
    /\ orphans > 0
    /\ UNCHANGED <<api, emitted>>
    /\ r = "ok" => stdin # "empty"
    /\ stdin' = IF r = "ok" /\ stdin = "line" THEN "empty" ELSE stdin
    /\ orphans' = orphans - 1
    /\ UNCHANGED <<pc, callNo, args, mode, entered, reader, old, exc, outcome,
                   figs, keys, termMode, warned, h>>

\* ------------------------------------------------------- show and refresh
\* a request flag computed as `block is False`
NonblockingRequested_IsFalse(block) == block = "False"

\* core.py 134: `block is not True`
NonblockingRequested(block) == block # "True"

\* a test `block is not False` in place of the truth value of block
Truthy_NotFalse(block) == block # "False"

\* core.py 139: `if block:` for block in (True, False, None)
Truthy(block) == block = "True"

\* every failing step reported under the key of show's plt.pause
WarnKey_Shared(fn, step) == "show:plt_pause"

\* core.py 84, 96, 144, 159: the key under which a failing step is reported
WarnKey(fn, step) ==
    IF fn = "refresh"
    THEN (IF step = "plt.pause" THEN "refresh:plt_pause" ELSE "refresh:in_foreground")
    ELSE (IF step = "plt.show" THEN "show:plt_show" ELSE "show:plt_pause")

\* the keys of the steps of calls that are in failed, in the order of the calls
RECURSIVE step_keys(_, _, _)
step_keys(fn, calls, failed) ==
    IF calls = <<>> THEN <<>>
    ELSE (IF Head(calls).fn \in failed THEN <<WarnKey(fn, Head(calls).fn)>> ELSE <<>>)
         \o step_keys(fn, Tail(calls), failed)

\* core.py 128-169: show(block=block, pause=pause).  name and gb are the
\* answer of matplotlib.get_backend(), r the outcome of the one plt.show() or
\* plt.pause() call made.
show(block, pause, name, gb, r) ==
    /\ pc \in {"idle", "done"}
    /\ \E backend \in {backend_str(gb, name)} :
       \E gui \in {is_gui_backend(backend)} :
       LET calls   == IF ~gui THEN <<>>
                      ELSE IF Truthy(block)
                      THEN <<[fn |-> "plt.show", arg |-> "()"]>>
                      ELSE <<[fn |-> "plt.pause", arg |-> pause]>>
           failed  == IF r = "raise" THEN {c.fn : c \in {calls[i] : i \in 1..Len(calls)}}
                      ELSE {}
           ks      == backend_str_keys(gb) \o step_keys("show", calls, failed)
           status  == IF ~gui
                      THEN [backend |-> backend,
                            nonblocking_requested |-> NonblockingRequested(block),
                            nonblocking_used |-> FALSE,
                            reason |-> "non-GUI backend; nothing to show"]
                      ELSE IF Truthy(block)
                      THEN [backend |-> backend,
                            nonblocking_requested |-> FALSE,
                            nonblocking_used |-> FALSE,
                            reason |-> "blocking plt.show()"]
                      ELSE [backend |-> backend,
                            nonblocking_requested |-> TRUE,
                            nonblocking_used |-> TRUE,
                            reason |-> "nonblocking show"]
       IN  /\ gui \/ r = "ok"
           /\ api' = [fn |-> "show", input |-> get_backend(gb, name), block |-> block, pause |-> pause,
                      in_foreground |-> FALSE, gui |-> gui,
                      calls |-> calls, failed |-> failed, keys |-> ks,
                      raised |-> FALSE, status |-> status]
           /\ warned' = warn_all(ks, warned)
           /\ emitted' = emit_all(ks, warned, emitted)
    /\ UNCHANGED <<pc, callNo, args, mode, entered, reader, orphans, old, exc, outcome,
                   envVars, termMode, h>>

\* core.py 69-106: refresh(fig, pause=pause, in_foreground=in_foreground).
\* p is the outcome of plt.pause(pause), rf the outcome of
\* backends.raise_figure(fig).
refresh(in_foreground, pause, name, gb, p, rf) ==
    /\ pc \in {"idle", "done"}
    /\ \E backend \in {backend_str(gb, name)} :
       \E gui \in {is_gui_backend(backend)} :
       LET calls   == IF ~gui THEN <<>>
                      ELSE <<[fn |-> "plt.pause", arg |-> pause]>>
                           \o (IF in_foreground
                               THEN <<[fn |-> "raise_figure", arg |-> "fig"]>>
                               ELSE <<>>)
           failed  == (IF gui /\ p = "raise" THEN {"plt.pause"} ELSE {})
                      \cup (IF gui /\ in_foreground /\ rf = "raise"
                            THEN {"raise_figure"} ELSE {})
           ks      == backend_str_keys(gb) \o step_keys("refresh", calls, failed)
           status  == IF ~gui
                      THEN [backend |-> backend,
                            nonblocking_requested |-> TRUE,
                            nonblocking_used |-> FALSE,
                            reason |-> "non-GUI backend; nothing to show"]
                      ELSE [backend |-> backend,
                            nonblocking_requested |-> TRUE,
                            nonblocking_used |-> TRUE,
                            reason |-> "nonblocking refresh"]
       IN  /\ gui \/ p = "ok"
           /\ (gui /\ in_foreground) \/ rf = "ok"
           /\ api' = [fn |-> "refresh", input |-> get_backend(gb, name), block |-> "False", pause |-> pause,
                      in_foreground |-> in_foreground, gui |-> gui,
                      calls |-> calls, failed |-> failed, keys |-> ks,
                      raised |-> FALSE, status |-> status]
           /\ warned' = warn_all(ks, warned)
           /\ emitted' = emit_all(ks, warned, emitted)
    /\ UNCHANGED <<pc, callNo, args, mode, entered, reader, orphans, old, exc, outcome,
                   envVars, termMode, h>>

\* backends.py 32-64: one call _is_gui_backend(name); the argument and the
\* result are kept in api
is_gui_backend_call(name) ==
    /\ pc \in {"idle", "done"}
    /\ api' = [Api0 EXCEPT !.fn = "_is_gui_backend",
                           !.gui = is_gui_backend(name),
                           !.status = [NoStatus EXCEPT !.backend = name]]
    /\ UNCHANGED <<pc, callNo, args, mode, entered, reader, orphans, old, exc, outcome,
                   envVars, termMode, warned, h, emitted>>

\* tracker backends.py 70-109: raise_window(fig) of matplotlib_window_tracker.
\* gb and name are the answer of matplotlib.get_backend().
raise_window(fig, gb, name) ==
    /\ pc \in {"idle", "done"}
    /\ \E first \in {ManagerFirst(fig)} :
       \E rest \in {IF first.done \/ first.exc THEN [calls |-> <<>>, exc |-> FALSE]
                    ELSE raise_dispatch(fig, raise_backend(gb, name))} :
           api' = [Api0 EXCEPT !.fn = "raise_window", !.input = fig,
                               !.status = [NoStatus EXCEPT
                                              !.backend = raise_backend(gb, name)],
                               !.calls = first.calls \o rest.calls,
                               !.raised = first.exc \/ rest.exc]
    /\ UNCHANGED <<pc, callNo, args, mode, entered, reader, orphans, old, exc, outcome,
                   envVars, termMode, warned, h, emitted>>

\* mpl_nonblock backends.py 90-112: raise_figure(fig)
raise_figure(fig, gb, name) ==
    /\ pc \in {"idle", "done"}
    /\ \E rest \in {raise_dispatch(fig, raise_backend(gb, name))} :
           api' = [Api0 EXCEPT !.fn = "raise_figure", !.input = fig,
                               !.status = [NoStatus EXCEPT
                                              !.backend = raise_backend(gb, name)],
                               !.calls = rest.calls,
                               !.raised = rest.exc]
    /\ UNCHANGED <<pc, callNo, args, mode, entered, reader, orphans, old, exc, outcome,
                   envVars, termMode, warned, h, emitted>>

\* mpl_nonblock backends.py 67-87: a call of recommended_backend(**given) on
\* the platform plat while the Matplotlib backend is current
recommended_backend_call(plat, given, current) ==
    /\ pc \in {"idle", "done"}
    /\ api' = [Api0 EXCEPT
                 !.fn = "recommended_backend",
                 !.input = [plat |-> plat, given |-> given, current |-> current],
                 !.status = [NoStatus EXCEPT !.backend =
                     recommended_backend(plat, kwarg(given, "macos"),
                                         kwarg(given, "linux"),
                                         kwarg(given, "windows"),
                                         kwarg(given, "other"))]]
    /\ UNCHANGED <<pc, callNo, args, mode, entered, reader, orphans, old, exc, outcome,
                   envVars, termMode, warned, h, emitted>>

\* matplotlib_window_tracker backends.py 15-67: a call of
\* recommended_backend(respect_existing=..., **given) on the platform plat
tracker_recommended_backend_call(plat, given, gb, name, respect_existing, mplbackend, pyplot) ==
    /\ pc \in {"idle", "done"}
    /\ api' = [Api0 EXCEPT
                 !.fn = "tracker.recommended_backend",
                 !.input = [plat |-> plat, given |-> given, gb |-> gb,
                            current |-> name,
                            respect_existing |-> respect_existing,
                            mplbackend |-> mplbackend, pyplot |-> pyplot],
                 !.keys = tracker_warn_keys(gb),
                 !.status = [NoStatus EXCEPT !.backend =
                     tracker_recommended_backend(
                         gb, name, respect_existing, mplbackend, pyplot, plat,
                         kwarg(given, "macos"), kwarg(given, "linux"),
                         kwarg(given, "windows"), kwarg(given, "other"))]]
    /\ UNCHANGED <<pc, callNo, args, mode, entered, reader, orphans, old, exc, outcome,
                   envVars, termMode, warned, h, emitted>>

\* ------------------------------------------------------------ environment
\* the user closes a figure window while a call is running
close_figure ==
    /\ pc \notin {"idle", "done"}
    /\ UNCHANGED <<api, emitted>>
    /\ figs > 0
    /\ figs' = figs - 1
    /\ UNCHANGED <<pc, callNo, args, mode, entered, reader, orphans, old, exc, outcome,
                   keys, stdin, termMode, warned, h>>

\* the user presses a key
key_arrives ==
    /\ keys < MaxKeys
    /\ UNCHANGED <<api, emitted>>
    /\ keys' = keys + 1
    /\ UNCHANGED <<pc, callNo, args, mode, entered, reader, orphans, old, exc, outcome,
                   figs, stdin, termMode, warned, h>>

\* the user completes a line
line_arrives ==
    /\ stdin = "empty"
    /\ UNCHANGED <<api, emitted>>
    /\ stdin' = "line"
    /\ UNCHANGED <<pc, callNo, args, mode, entered, reader, orphans, old, exc,
                   outcome, figs, keys, termMode, warned, h>>

\* standard input reaches end of file
stdin_closes ==
    /\ stdin = "empty"
    /\ UNCHANGED <<api, emitted>>
    /\ stdin' = "eof"
    /\ UNCHANGED <<pc, callNo, args, mode, entered, reader, orphans, old, exc,
                   outcome, figs, keys, termMode, warned, h>>

\* ------------------------------------------------------------ specification
\* the script calls hold_windows once
Call ==
    /\ pc = "idle"
    /\ \E trigger \in Triggers, prompt \in Prompts, only_if_tty \in BOOLEAN,
          gb \in Results, gui \in BOOLEAN, tty \in TtyAnswers, nfigs \in 0..MaxFigs :
           hold_windows(trigger, prompt, only_if_tty, gb, gui, tty, nfigs)

Setup ==
    \E platform \in Platforms, importOk \in BOOLEAN, filenoOk \in BOOLEAN,
       start \in Results :
        setup_trigger(platform, importOk, filenoOk, start)

EnterScope == \E g \in Results, s \in Results : cbreak_enter(g, s)

CheckFigures == \E r \in Results : loop_check_figures(r)

CheckKey == \E ready \in Results, rd \in Results : loop_check_key(ready, rd, "none")

\* the poll of a call that runs beside a left-over reader
CheckKeyRace ==
    \/ \E ready \in Results : loop_check_key_stolen(ready, "stolen")
    \/ \E rd \in Results : read_returns(rd)

Pump ==
    \E gf \in Results, fg \in Results, hasLoop \in BOOLEAN,
       p1 \in Results, p2 \in Results :
        pump(gf, fg, hasLoop, p1, p2)

ExitScope == \E t \in Results : cbreak_exit(t)

Reader == \E r \in Results : reader_runs(r)

Orphan == \E r \in Results : orphan_runs(r)

MainStep ==
    \/ Setup
    \/ EnterScope
    \/ loop_check_entered
    \/ CheckFigures
    \/ CheckKey
    \/ Pump
    \/ ExitScope

Environment ==
    \/ close_figure
    \/ key_arrives
    \/ line_arrives
    \/ stdin_closes

Next ==
    \/ Call
    \/ MainStep
    \/ Reader
    \/ Environment

Spec == Init /\ [][Next]_vars

\* the script calls hold_windows once, with arguments that take the call to
\* the wait loop: a valid trigger, prompt=None, only_if_tty=False, on a GUI
\* backend
LoopCall ==
    /\ pc = "idle"
    /\ \E trigger \in {"Enter", "AnyKey"}, nfigs \in 0..MaxFigs :
           hold_windows(trigger, "NONE", FALSE, "ok", TRUE, "unasked", nfigs)

LoopNext ==
    \/ LoopCall
    \/ MainStep
    \/ Reader
    \/ Environment

\* the script makes up to MaxCalls such calls, one after the other; reader
\* threads left blocked by earlier calls keep running
SeqCall ==
    /\ callNo < MaxCalls
    /\ \E trigger \in {"Enter", "AnyKey"}, nfigs \in 0..MaxFigs :
           hold_windows(trigger, "NONE", FALSE, "ok", TRUE, "unasked", nfigs)

SeqNext ==
    \/ SeqCall
    \/ MainStep
    \/ CheckKeyRace
    \/ Reader
    \/ Orphan
    \/ Environment

SeqSpec == Init /\ [][SeqNext]_vars

\* the main thread and the reader thread are scheduled fairly, and a
\* readiness check repeated while a key is buffered does not fail for ever
KeyHit == loop_check_key("ok", "ok", "none")

FairSpec ==
    /\ Init /\ [][LoopNext]_vars
    /\ WF_vars(MainStep) /\ WF_vars(Reader) /\ SF_vars(KeyHit)

\* the script calls show() and refresh() any number of times, under a GUI
\* backend, a non-GUI backend, a GUI backend the classifier does not know,
\* and a padded lower-case name
ShowBackends ==
    { <<"T", "k", "A", "g", "g">>,
      <<"M", "a", "c", "O", "S", "X">>,
      <<"A", "g", "g">>,
      <<"Q", "t", "C", "a", "i", "r", "o">>,
      <<" ", "q", "t", "a", "g", "g", " ">> }

Show ==
    \E block \in Blocks, pause \in Pauses, name \in ShowBackends,
       gb \in Results, r \in Results :
        show(block, pause, name, gb, r)

Refresh ==
    \E in_foreground \in BOOLEAN, pause \in Pauses, name \in ShowBackends,
       gb \in Results, p \in Results, rf \in Results :
        refresh(in_foreground, pause, name, gb, p, rf)

ShowNext ==
    \/ Show
    \/ Refresh

ShowSpec == Init /\ [][ShowNext]_vars

\* _is_gui_backend applied to every backend string
IsGuiBackend == \E name \in BackendStrings : is_gui_backend_call(name)

BackendNext == IsGuiBackend

BackendSpec == Init /\ [][BackendNext]_vars

\* the script makes up to MaxCalls hold_windows(trigger="AnyKey") calls with
\* no figure open and nothing arriving on standard input, and calls show()
\* and refresh() on a GUI backend before, between and after them
WarnCall ==
    /\ callNo < MaxCalls
    /\ \E gb \in Results :
           hold_windows("AnyKey", "NONE", FALSE, gb, gb = "ok", "unasked", 0)

WarnShow ==
    \E gb \in Results, r \in Results :
        show("False", "0.001", <<"T", "k", "A", "g", "g">>, gb, r)

WarnRefresh ==
    \E gb \in Results, p \in Results :
        refresh(FALSE, "0.001", <<"T", "k", "A", "g", "g">>, gb, p, "ok")

WarnNext ==
    \/ WarnCall
    \/ Setup
    \/ EnterScope
    \/ loop_check_entered
    \/ CheckFigures
    \/ ExitScope
    \/ Reader
    \/ Orphan
    \/ WarnShow
    \/ WarnRefresh

WarnSpec == Init /\ [][WarnNext]_vars

\* the script raises figures of every shape under a macOS, a Qt, a Tk and a
\* non-GUI backend, and with matplotlib.get_backend() failing
Outcomes == {"absent", "ok", "raise"}

Figs ==
    {NoFig, [NoFig EXCEPT !.canvas = "obj"]}
    \cup [canvas : {"obj"}, manager : {"obj"},
          raise_window : {"absent", "notcallable", "ok", "raise"},
          window : {"None", "obj"},
          m1 : Outcomes, m2 : {"ok", "raise"}, m3 : {"ok", "raise"}]

RaiseBackends ==
    { <<"M", "a", "c", "O", "S", "X">>,
      <<"Q", "t", "A", "g", "g">>,
      <<"T", "k", "A", "g", "g">>,
      <<"A", "g", "g">> }

\* what matplotlib.get_backend() does: it returns one of the names, or fails
BackendAnswers ==
    {<<"ok", n>> : n \in RaiseBackends} \cup {<<"raise", <<>>>>}

RaiseWindow ==
    \E fig \in Figs, a \in BackendAnswers :
        raise_window(fig, a[1], a[2])

RaiseFigure ==
    \E fig \in Figs, a \in BackendAnswers :
        raise_figure(fig, a[1], a[2])

RaiseNext ==
    \/ RaiseWindow
    \/ RaiseFigure

RaiseSpec == Init /\ [][RaiseNext]_vars

\* values of sys.platform: the three families, and names that only look
\* like them
SysPlatforms ==
    { <<"d", "a", "r", "w", "i", "n">>,
      <<"l", "i", "n", "u", "x">>,
      <<"l", "i", "n", "u", "x", "2">>,
      <<"w", "i", "n", "3", "2">>,
      <<"c", "y", "g", "w", "i", "n">>,
      <<"f", "r", "e", "e", "b", "s", "d", "1", "3">>,
      <<"D", "a", "r", "w", "i", "n">>,
      <<"d", "a", "r", "w", "i", "n", "2", "0">> }

\* the value a call passes for a keyword argument when it passes one
GivenValue ==
    [macos |-> <<"Q", "t", "A", "g", "g">>,
     linux |-> <<"G", "T", "K", "3", "A", "g", "g">>,
     windows |-> <<"W", "x", "A", "g", "g">>,
     other |-> <<"A", "g", "g">>]

\* keyword arguments of a call: any subset of the four keywords
GivenBackends ==
    {[k \in K |-> GivenValue[k]] : K \in SUBSET {"macos", "linux", "windows", "other"}}

RecommendedBackend ==
    \E plat \in SysPlatforms, given \in GivenBackends, current \in RaiseBackends :
        recommended_backend_call(plat, given, current)

RecommendNext == RecommendedBackend

RecommendSpec == Init /\ [][RecommendNext]_vars

\* the window tracker's recommended_backend() on one platform of each family,
\* with no keyword or all four given, with a backend configured or not
TrackerPlatforms ==
    { <<"d", "a", "r", "w", "i", "n">>,
      <<"l", "i", "n", "u", "x">>,
      <<"w", "i", "n", "3", "2">>,
      <<"f", "r", "e", "e", "b", "s", "d", "1", "3">> }

TrackerGiven == {g \in GivenBackends : DOMAIN g \in {{}, {"macos", "linux", "windows", "other"}}}

TrackerAnswers ==
    { <<"ok", <<"T", "k", "A", "g", "g">>>>,
      <<"ok", <<"A", "g", "g">>>>,
      <<"raise", <<>>>> }

TrackerRecommendedBackend ==
    \E plat \in TrackerPlatforms, given \in TrackerGiven, a \in TrackerAnswers,
       respect_existing \in BOOLEAN, mplbackend \in BOOLEAN, pyplot \in BOOLEAN :
        tracker_recommended_backend_call(plat, given, a[1], a[2], respect_existing,
                                         mplbackend, pyplot)

TrackerNext == TrackerRecommendedBackend

TrackerSpec == Init /\ [][TrackerNext]_vars

\* ------------------------------------------------------------------ claims
Ended      == pc = "done"
Returned   == pc = "done" /\ outcome = "returned"
Waiting    == pc \in {"chk_flag", "chk_figs", "chk_key", "pump"}
\* the call got past the gates and the validation of core.py 203-215
PastGates  == callNo > 0 /\ h.exitReason \notin {"nongui", "notty", "invalid"}
\* tty.setcbreak was called and succeeded
CbreakSet  == h.setcb = 1 /\ h.exitReason # "setcbreak_error"
NoTerminalCall == h.tcget = 0 /\ h.setcb = 0 /\ h.tcset = 0

\* C1: every AnyKey call that invoked tty.setcbreak ends with the terminal
\* attributes it started with, whatever tcgetattr, tcsetattr and the loop do.
C1_TerminalRestored ==
    (Ended /\ h.setcb = 1) => termMode = h.termAtEntry

\* C2: with zero figures open at entry the call returns without switching
\* the terminal to cbreak mode and without any pump call.
C2_NoFiguresNoAcquire ==
    (Ended /\ PastGates /\ h.figsAtEntry = 0)
        => (~CbreakSet /\ h.pumpCalls = 0)

\* C3: once the trigger's poll reports true (a key was read, or the Enter
\* flag was observed set) the loop is left and no pump call follows; a true
\* first poll means the call ends with zero pump calls.
PollTrue == h.truePoll \/ h.exitReason = "flag"

C3_NoPumpAfterTruePoll ==
    /\ [](PollTrue => pc \in {"exit_ctx", "done"})
    /\ [][(PollTrue /\ callNo' = callNo) => h'.pumpCalls = h.pumpCalls]_vars
    /\ []((h.truePoll /\ h.polls = 1) => h.pumpCalls = 0)

C3_Witness ==
    /\ Returned /\ mode = "win" /\ h.figsAtEntry = 1 /\ figs = 1
    /\ h.truePoll /\ h.polls = 1 /\ h.pumpCalls = 0 /\ h.consumed = 1

\* C4: only_if_tty with a stdin that is not a tty (isatty() false or raising)
\* returns at once: no pump, no prompt, no thread, no terminal call, for
\* every trigger value and any number of figures.
TtyBlocked == callNo > 0 /\ args.only_if_tty /\ h.tty \in {"notty", "raise"}

C4_TtyGateReturns ==
    TtyBlocked =>
        /\ Returned
        /\ h.pumpCalls = 0 /\ h.polls = 0 /\ h.prompts = 0 /\ h.threads = 0
        /\ reader = "none" /\ NoTerminalCall /\ termMode = h.termAtEntry

C4_Witness ==
    /\ TtyBlocked /\ Returned /\ h.tty = "raise"
    /\ args.trigger = "Bogus" /\ h.figsAtEntry = MaxFigs

\* C5: a trigger outside {"Enter", "AnyKey"} makes the call fail
\* with ValueError in every environment, before any prompt, thread or pump.
C5_InvalidTriggerRaises ==
    (callNo > 0 /\ ~ValidTrigger(args.trigger))
        => (pc = "done" /\ outcome = "ValueError"
            /\ h.prompts = 0 /\ h.threads = 0 /\ h.pumpCalls = 0)

\* C5, what the code does: a trigger outside {"Enter", "AnyKey"} ends the call before
\* any prompt, thread, terminal call or pump; it ends with ValueError exactly
\* when the backend is a GUI backend and the tty gate lets the call through
\* (only_if_tty false, or isatty() true), and with a silent return otherwise.
C5_InvalidTriggerRaisesPastGates ==
    (callNo > 0 /\ args.trigger \notin {"Enter", "AnyKey"})
        => /\ pc = "done" /\ outcome \in {"ValueError", "returned"}
           /\ outcome = "ValueError"
                  <=> (h.gui /\ (~args.only_if_tty \/ h.tty = "tty"))
           /\ h.prompts = 0 /\ h.threads = 0 /\ h.pumpCalls = 0
           /\ reader = "none" /\ NoTerminalCall

C5_Witness ==
    /\ pc = "done" /\ args.trigger = "Bogus" /\ outcome = "ValueError"
    /\ args.only_if_tty /\ h.tty = "tty" /\ args.prompt = "STR"
    /\ h.figsAtEntry = 0 /\ h.prompts = 0

\* C6: with a valid trigger no exception escapes the call, whichever
\* collaborator fails.
C6_NeverRaises ==
    (Ended /\ ValidTrigger(args.trigger)) => outcome = "returned"

\* C7: a call that is waiting, whose pump calls return, and for which a
\* termination condition holds (the flag is set, a key is buffered for a
\* working detector, or no figure is open) eventually returns.
TermCond ==
    \/ entered
    \/ figs = 0
    \/ (mode \in {"win", "posix"} /\ keys > 0)

C7_EventuallyReturns ==
    (Waiting /\ TermCond) ~> (Ended /\ (outcome = "returned" \/ h.pumpRaised))

C7_Witness ==
    /\ Returned /\ mode = "posix" /\ h.exitReason = "key"
    /\ h.pumpCalls > 0 /\ figs > 0

\* C8: once no figure is open, at most the pump step in progress is made
\* and the call leaves at the next window check, with no key consumed.
C8_ExitAtNextWindowCheck ==
    /\ h.pumpsEmpty <= 1
    /\ h.exitReason = "windows"
           => (figs = 0 /\ pc \in {"exit_ctx", "done"} /\ h.consumed = 0)

C8_Witness ==
    /\ Returned /\ h.exitReason = "windows" /\ h.figsAtEntry = MaxFigs
    /\ h.pumpCalls > 0 /\ h.pumpsEmpty = 1 /\ ~entered /\ keys = 0

\* C9 as claimed: one figure, trigger "Enter", readline() returning at once:
\* the call returns having made at most one pump call, under every
\* interleaving of the loop and the reader thread.
ScenarioA == mode = "enter" /\ h.figsAtEntry = 1 /\ h.lineAtEntry

C9_AtMostOnePump ==
    (Returned /\ ScenarioA /\ reader = "set" /\ figs = 1) => h.pumpCalls <= 1

\* C9 as amended: in that scenario at most one pump call is made after the
\* reader thread has set the flag, and the flag ends the call at its next
\* check; the pump calls made before the reader thread runs are not bounded.
C9_AtMostOnePumpAfterFlag ==
    ScenarioA =>
        /\ h.pumpsFlag <= 1
        /\ (pc = "chk_figs" /\ h.tick = <<"entered">>) => h.pumpsFlag = 0

C9_Witness ==
    /\ Returned /\ ScenarioA /\ reader = "set" /\ figs = 1
    /\ h.exitReason = "flag" /\ h.pumpsFlag = 1 /\ h.pumpCalls = MaxPumps

\* C10: an unsupported AnyKey detector gives the call Enter semantics: the
\* reader thread is started, the terminal is never touched, no key is polled
\* or consumed, and the call ends as a trigger="Enter" call does.
EnterSemantics ==
    /\ h.exitReason # "thread_error" => (h.threads = 1 /\ reader # "none")
    /\ NoTerminalCall /\ old = "unset" /\ termMode = h.termAtEntry
    /\ h.polls = 0 /\ h.consumed = 0 /\ ~h.truePoll
    /\ Ended => h.exitReason \in {"flag", "windows", "fignums_error",
                                   "pump_error", "thread_error"}
    /\ h.exitReason = "flag" => reader = "set"

C10_FallbackIsEnter ==
    /\ h.probe # "" => (mode = "fallback" \/ h.exitReason = "thread_error")
    /\ h.probe # "" => EnterSemantics
    /\ mode = "enter" => EnterSemantics

C10_Witness ==
    /\ Returned /\ mode = "fallback" /\ h.probe = "hold_windows:anykey_fileno"
    /\ h.exitReason = "flag" /\ h.pumpCalls > 0 /\ keys > 0

\* C11: for every key, the calls of _warn_once made by any sequence of
\* hold_windows, show and refresh calls emit exactly one warning: the first
\* call with the key emits it, later calls emit nothing, and the registry
\* _WARNED_ONCE only grows.
C11_WarnOnce ==
    /\ [](\A k \in WarnKeys : emitted[k] = IF k \in warned THEN 1 ELSE 0)
    /\ [][warned \subseteq warned']_vars
    /\ []((h.probe # "" /\ h.warnings = 0) => emitted[h.probe] = 1)

C11_Witness ==
    /\ callNo = MaxCalls /\ pc = "done"
    /\ h.probe = "hold_windows:anykey_fileno" /\ h.warnings = 0
    /\ emitted["hold_windows:anykey_fileno"] = 1
    /\ api.fn = "show" /\ api.keys = <<"backend_str">>
    /\ emitted["backend_str"] = 1
    /\ emitted["show:plt_pause"] = 1
    /\ emitted["refresh:plt_pause"] = 1

\* C12: the reader worker sets the flag whenever its readline() completes,
\* at end of file and on a read error alike.
C12_ReaderAlwaysSetsFlag ==
    reader \in {"set", "failed"} => entered

\* C13: across a sequence of calls at most one trigger resource is active at
\* any time: one raw-mode scope or one live reader worker, counting the
\* workers left over by earlier calls.
ScopeActive ==
    key_ctx(mode) = "cbreak" /\ Waiting /\ h.setcb = 1

ActiveResources ==
    orphans + (IF reader = "blocked" THEN 1 ELSE 0)
            + (IF ScopeActive THEN 1 ELSE 0)

C13_OneTriggerResource == ActiveResources <= 1

\* C14: on a backend classified as non-GUI the call returns at once, for
\* every trigger, prompt and only_if_tty: no pump, no poll, no prompt, no
\* thread, and the terminal is neither inspected (isatty) nor changed.
NonGuiCall == callNo > 0 /\ ~h.gui

C14_NonGuiReturns ==
    NonGuiCall =>
        /\ Returned /\ h.exitReason = "nongui"
        /\ h.pumpCalls = 0 /\ h.polls = 0 /\ h.prompts = 0 /\ h.threads = 0
        /\ reader = "none" /\ h.tty = "unasked"
        /\ NoTerminalCall /\ termMode = h.termAtEntry

C14_Witness ==
    /\ NonGuiCall /\ Returned /\ args.trigger = "Bogus"
    /\ args.prompt = "STR" /\ args.only_if_tty /\ h.figsAtEntry = MaxFigs

\* C15: a call that runs with Enter semantics (trigger "Enter", or "AnyKey"
\* after the fallback) or on the Windows console path makes no tcgetattr,
\* setcbreak or tcsetattr call and leaves the terminal mode as it was, on
\* every exit path.
C15_EnterAndWindowsLeaveTerminal ==
    (callNo > 0 /\ mode \in {"enter", "fallback", "win"})
        => (NoTerminalCall /\ old = "unset" /\ termMode = h.termAtEntry)

C15_Witness ==
    /\ pc = "done" /\ mode = "win" /\ outcome = "raised"
    /\ h.exitReason = "pump_error" /\ NoTerminalCall

\* C16: the prompt is printed zero times when prompt=None, at most once
\* otherwise, and the print precedes every poll and every pump of the call.
C16_PromptOnceBeforeLoop ==
    /\ [](args.prompt = "NONE" => h.prompts = 0)
    /\ [](h.prompts <= 1)
    /\ []((args.prompt # "NONE" /\ (h.polls > 0 \/ h.pumpCalls > 0 \/ h.tick # <<>>))
              => h.prompts = 1)
    /\ [][(callNo' = callNo) => h'.prompts = h.prompts]_vars

C16_Witness ==
    /\ Returned /\ args.prompt = "STR" /\ h.prompts = 1
    /\ h.polls > 0 /\ h.pumpCalls > 0

\* C17: on a non-GUI backend refresh and show make no GUI call (no
\* plt.pause, no plt.show, no raise_figure) and return nonblocking_used =
\* False with the reason "non-GUI backend; nothing to show"; refresh reports
\* nonblocking_requested = True, show reports it as (block is not True).
C17_NonGuiShowsNothing ==
    (api.fn \in {"show", "refresh"} /\ ~api.gui) =>
        /\ api.calls = <<>> /\ api.failed = {} /\ ~api.raised
        /\ ~api.status.nonblocking_used
        /\ api.status.reason = "non-GUI backend; nothing to show"
        /\ api.fn = "refresh" => api.status.nonblocking_requested
        /\ api.fn = "show" =>
               (api.status.nonblocking_requested <=> api.block # "True")

C17_Witness ==
    /\ api.fn = "show" /\ ~api.gui /\ api.block = "None"
    /\ api.status.backend = <<"A", "g", "g">>
    /\ api.status.nonblocking_requested /\ api.calls = <<>>

StepKey(fn, step) ==
    IF fn = "refresh" /\ step = "plt.pause" THEN "refresh:plt_pause"
    ELSE IF fn = "refresh" /\ step = "raise_figure" THEN "refresh:in_foreground"
    ELSE IF fn = "show" /\ step = "plt.show" THEN "show:plt_show"
    ELSE IF fn = "show" /\ step = "plt.pause" THEN "show:plt_pause"
    ELSE "?"

GuiStatus ==
    [backend |-> api.status.backend,
     nonblocking_requested |-> ~(api.fn = "show" /\ api.block = "True"),
     nonblocking_used |-> ~(api.fn = "show" /\ api.block = "True"),
     reason |-> IF api.fn = "refresh" THEN "nonblocking refresh"
                ELSE IF api.block = "True" THEN "blocking plt.show()"
                ELSE "nonblocking show"]

C19_StepFailureNonFatal ==
    (api.fn \in {"show", "refresh"} /\ api.gui) =>
        /\ ~api.raised
        /\ api.status = GuiStatus
        /\ \A step \in {"plt.pause", "plt.show", "raise_figure"} :
               api.failed = {step} =>
                   /\ api.keys = <<StepKey(api.fn, step)>>
                   /\ StepKey(api.fn, step) \in warned
        /\ api.failed = {} => api.keys = <<>>

C19_Witness ==
    /\ api.fn = "refresh" /\ api.gui /\ api.in_foreground
    /\ api.failed = {"plt.pause"} /\ api.keys = <<"refresh:plt_pause">>
    /\ Len(api.calls) = 2 /\ api.calls[2].fn = "raise_figure"
    /\ api.status.reason = "nonblocking refresh"
    /\ emitted["refresh:plt_pause"] = 1

\* C20: _is_gui_backend returns True for every official interactive GUI
\* backend name (GTK3Agg, GTK3Cairo, GTK4Agg, GTK4Cairo, MacOSX, QtAgg,
\* QtCairo, Qt5Agg, Qt5Cairo, TkAgg, TkCairo, WX, WXAgg, WXCairo).
C20_OfficialGuiBackendsAreGui ==
    (api.fn = "_is_gui_backend" /\ api.status.backend \in OfficialGuiBackends)
        => api.gui

\* C21: _is_gui_backend returns False, in any letter case, for the non-GUI
\* backend names Agg, cairo, pdf, pgf, ps, inline,
\* module://matplotlib_inline.backend_inline, nbAgg, notebook, WebAgg, svg,
\* and for every string that is not "macosx" and does not end in "agg".
NonGuiNames == OtherBackends

NamedNonGui(s) == \E n \in NonGuiNames : lower(s) = lower(n)

C21_NonGuiBackendsAreNotGui ==
    api.fn = "_is_gui_backend" =>
        LET s == api.status.backend
            b == strip(lower(s))
        IN  /\ NamedNonGui(s) => ~api.gui
            /\ (b # Str_macosx /\ ~endswith(b, Str_agg)) => ~api.gui

C21_Witness ==
    /\ api.fn = "_is_gui_backend" /\ ~api.gui
    /\ api.status.backend = <<"W", "E", "B", "A", "G", "G">>

RaiseCalled == api.fn \in {"raise_window", "raise_figure"}

FallbackUsed ==
    \E i \in DOMAIN api.calls :
        api.calls[i].fn \in {"_raise_macosx", "_raise_qt", "_raise_tk"}

ExposesRaiseWindow ==
    /\ api.input.canvas = "obj"
    /\ api.input.manager = "obj"
    /\ api.input.raise_window \in {"ok", "raise"}

\* C22: raise_window(fig) and raise_figure(fig) never raise, whatever fig is:
\* without canvas or manager, with a manager or window that lacks the raise
\* methods, and with raise methods that raise themselves.
C22_RaiseNeverRaises == RaiseCalled => ~api.raised

C22_Witness ==
    /\ api.fn = "raise_window"
    /\ ~api.raised
    /\ api.input.raise_window = "absent"
    /\ api.input.m2 = "raise"
    /\ api.calls = <<Called("_raise_qt"), Called("win.show"), Called("win.raise_")>>

\* C23: when the manager exposes a callable raise_window, raise_window(fig)
\* calls it exactly once and does no backend-specific raising, under every
\* backend name; the backend-specific fallback is used only when the manager
\* does not expose raise_window.
C23_ManagerRaiseWindowOnly ==
    api.fn = "raise_window" =>
        /\ ExposesRaiseWindow => api.calls = <<Called("mgr.raise_window")>>
        /\ FallbackUsed => ~ExposesRaiseWindow

\* the argument of the call, or the documented default when it was left out
Passed(key, default) ==
    IF key \in DOMAIN api.input.given THEN api.input.given[key] ELSE default

\* C24: mpl_nonblock.recommended_backend returns its macos argument on
\* "darwin", its linux argument on a platform that starts with "linux", its
\* windows argument on one that starts with "win" and its other argument
\* everywhere else, with the defaults "macosx", "TkAgg", "TkAgg", "TkAgg";
\* the result is one of the four arguments and is fixed by the platform and
\* the arguments alone, so the current Matplotlib backend has no part in it.
C24_RecommendedBackendByPlatform ==
    api.fn = "recommended_backend" =>
        LET plat == api.input.plat
            r == api.status.backend
            tk == <<"T", "k", "A", "g", "g">>
            macos == Passed("macos", <<"m", "a", "c", "o", "s", "x">>)
            linux == Passed("linux", tk)
            windows == Passed("windows", tk)
            other == Passed("other", tk)
            isLinux == Len(plat) >= 5 /\ SubSeq(plat, 1, 5) = <<"l", "i", "n", "u", "x">>
            isWin == Len(plat) >= 3 /\ SubSeq(plat, 1, 3) = <<"w", "i", "n">>
        IN  /\ r = IF plat = <<"d", "a", "r", "w", "i", "n">> THEN macos
                   ELSE IF isLinux THEN linux
                   ELSE IF isWin THEN windows
                   ELSE other
            /\ r \in {macos, linux, windows, other}

C24_Witness ==
    /\ api.fn = "recommended_backend"
    /\ api.input.plat = <<"c", "y", "g", "w", "i", "n">>
    /\ DOMAIN api.input.given = {"windows", "other"}
    /\ api.input.current = <<"Q", "t", "A", "g", "g">>
    /\ api.status.backend = <<"A", "g", "g">>

PumpCalls == {"start_event_loop", "pause"}

\* the steps of the running tick so far, a coming before b wherever both occur
Before(a, b) ==
    \A i, j \in DOMAIN h.tick : (h.tick[i] \in a /\ h.tick[j] \in b) => i < j

Polling == mode \in {"win", "posix"}

\* the checks of a tick in the order of the loop condition and body
TickChecks == <<"entered", "figures">> \o (IF Polling THEN <<"poll">> ELSE <<>>)

IsPrefix(p, t) == Len(p) <= Len(t) /\ SubSeq(t, 1, Len(p)) = p

C26_PumpNeverRaises ==
    h.pumpCalls > 0 => (~h.pumpRaised /\ h.exitReason # "pump_error")

\* a step of the AnyKey setup has failed: an import or sys.stdin.fileno()
\* (a probe warning key is recorded), termios.tcgetattr, or tty.setcbreak
AnyKeySetupFailed ==
    /\ args.trigger = "AnyKey"
    /\ pc \notin {"idle", "setup"}
    /\ h.exitReason # "thread_error"
    /\ \/ h.probe # ""
       \/ h.tcget = 1 /\ old = "None"
       \/ h.exitReason = "setcbreak_error"

\* C27: an exception in any step of the AnyKey setup on POSIX (the imports,
\* sys.stdin.fileno(), termios.tcgetattr, tty.setcbreak) degrades the trigger
\* to unsupported, with a warning issued once and the Enter fallback, and
\* never leaves hold_windows.
C27_SetupFailureDegrades ==
    AnyKeySetupFailed =>
        /\ mode = "fallback"
        /\ h.threads = 1
        /\ warned \cap {"hold_windows:anykey_import", "hold_windows:anykey_fileno"} # {}
        /\ outcome # "raised"

\* C28: a call that reaches the trigger setup starts exactly one reader
\* thread under Enter semantics (trigger "Enter", or AnyKey unsupported) and
\* none with a supported AnyKey detector; a reader thread makes exactly one
\* readline() call and sets the flag at most once.
C28_OneReaderOneRead ==
    pc \notin {"idle", "setup"} /\ PastGates =>
        /\ mode \in {"enter", "fallback"} => (h.starts = 1 /\ h.threads = 1)
        /\ mode \in {"win", "posix"} =>
              (h.starts = 0 /\ h.threads = 0 /\ reader = "none" /\ h.reads = 0)
        /\ h.threads <= h.starts /\ h.starts <= 1
        /\ h.threads = 0 => (reader = "none" /\ h.reads = 0)
        /\ h.reads = (IF reader \in {"set", "failed"} THEN 1 ELSE 0)
        /\ h.sets = (IF reader = "set" THEN 1 ELSE 0)
        /\ h.sets <= h.reads

C28_Witness ==
    /\ pc = "pump"
    /\ args.trigger = "AnyKey" /\ mode = "fallback"
    /\ h.threads = 1 /\ reader = "set" /\ h.reads = 1 /\ h.sets = 1
    /\ h.pumpCalls = 1

\* the pump primitives called in the running tick
TickPumps ==
    IF Len(h.tick) > Len(TickChecks)
    THEN SubSeq(h.tick, Len(TickChecks) + 1, Len(h.tick)) ELSE <<>>

\* the primitive the try block chooses: start_event_loop of the figure's
\* canvas when it is callable, plt.pause otherwise
Chosen == IF h.hasLoop THEN "start_event_loop" ELSE "pause"

Pumped == h.pumpCalls > 0 /\ TickPumps # <<>>

\* C29 (as stated): a tick that pumps makes exactly one primitive call, the
\* chosen one, also when the chosen primitive fails.
C29_OnePrimitivePerTick ==
    (Pumped /\ ~h.pumpRaised) => TickPumps = <<Chosen>>

\* C29 (amended): a tick whose try block succeeds makes exactly one primitive
\* call, the chosen one (never both primitives); a tick whose try block fails
\* makes one more call, always plt.pause: after the failed chosen
\* primitive, or alone when plt.get_fignums or plt.figure failed before any
\* primitive was chosen.  start_event_loop is never called twice.
C29_OnePrimitivePerAttempt ==
    Pumped =>
        /\ ~h.handler => TickPumps = <<Chosen>>
        /\ h.handler => TickPumps \in {<<"pause">>, <<Chosen, "pause">>}
        /\ h.hasLoop => TickPumps[1] = "start_event_loop"
        /\ \A i \in 2..Len(TickPumps) : TickPumps[i] # "start_event_loop"

C29_Witness ==
    /\ pc = "chk_flag"
    /\ h.hasLoop /\ h.handler /\ ~h.pumpRaised
    /\ h.tick = <<"entered", "figures", "poll", "start_event_loop", "pause">>

\* the call is on the POSIX raw-mode path and termios.tcgetattr succeeded
AttrsSaved == PastGates /\ h.tcget = 1 /\ old \notin {"unset", "None"}

\* C30: on the POSIX raw-mode path with the attributes saved, tcsetattr is
\* attempted exactly once per call, with the saved attributes, on every exit
\* path, after the last poll and the last pump; every poll of the raw-mode
\* trigger lies between setcbreak and that restore.
C30_RestoreOnceWithSaved ==
    /\ AttrsSaved =>
          /\ old = h.termAtEntry
          /\ pc = "done" => (h.tcset = 1 /\ h.tcsetArg = old)
          /\ pc # "done" => (h.tcset = 0 /\ h.tcsetArg = "")
    /\ pc \in {"chk_flag", "chk_figs", "chk_key", "pump"} => h.tcset = 0
    /\ (mode = "posix" /\ h.polls > 0) => CbreakSet
    /\ (mode = "posix" /\ pc \in {"chk_key", "pump"}) => (CbreakSet /\ h.tcset = 0)

C30_Witness ==
    /\ pc = "done" /\ mode = "posix"
    /\ h.exitReason = "pump_error"
    /\ h.polls > 0
    /\ old = "cooked" /\ h.tcset = 1 /\ h.tcsetArg = "cooked"

\* C31: a termios.tcsetattr that raises at release is swallowed: a call whose
\* loop ended normally still returns normally, and an exception that ended
\* the loop is still the outcome of the call.
C31_RestoreFailureSwallowed ==
    (pc = "done" /\ h.tcsetRaised) =>
        /\ h.exitReason \in {"flag", "windows", "fignums_error", "key"}
              => outcome = "returned"
        /\ h.exitReason \in {"pump_error", "setcbreak_error"} => outcome = "raised"
        /\ h.tcset = 1

C31_Witness ==
    /\ pc = "done" /\ h.tcsetRaised
    /\ h.exitReason = "key" /\ outcome = "returned"
    /\ termMode = "cbreak" /\ old = "cooked"

\* C32: on both AnyKey paths a poll that reports true has consumed exactly
\* one unit of input and a poll that reports false none, so a call consumes
\* at most one unit in all.
C32_TruePollConsumesOne ==
    (PastGates /\ mode \in {"win", "posix"}) =>
        /\ h.consumed = (IF h.truePoll THEN 1 ELSE 0)
        /\ h.consumed <= 1

\* C33: a call that has been waiting returns normally only because the
\* trigger fired or because the figures were closed; a failure of a
\* collaborator while figures are still open does not end the wait.
C33_ReturnsOnlyOnTriggerOrClose ==
    (Returned /\ h.pumpCalls > 0) =>
        \/ h.exitReason \in {"flag", "key"}
        \/ h.exitReason = "windows" /\ figs = 0

\* C34: the thread of the tick loop never makes a blocking read of standard
\* input: readline() runs on the reader thread only, and the AnyKey detectors
\* read only what a zero-timeout readiness check has just reported, so the
\* loop thread waits in the pump and nowhere else.
C34_LoopNeverBlocksOnStdin ==
    /\ pc # "read_blocked"
    /\ ~h.blocked

\* C35: when matplotlib.get_backend() fails, the window tracker's
\* recommended_backend warns under its key and returns the platform default,
\* for every respect_existing, with MPLBACKEND set or not and pyplot imported
\* or not; the name it returns is never empty.
C35_FailedLookupGivesPlatformDefault ==
    (api.fn = "tracker.recommended_backend" /\ api.input.gb = "raise") =>
        LET plat == api.input.plat
            tk == <<"T", "k", "A", "g", "g">>
            dflt == IF plat = <<"d", "a", "r", "w", "i", "n">>
                    THEN Passed("macos", <<"m", "a", "c", "o", "s", "x">>)
                    ELSE IF Len(plat) >= 5 /\ SubSeq(plat, 1, 5) = <<"l", "i", "n", "u", "x">>
                    THEN Passed("linux", tk)
                    ELSE IF Len(plat) >= 3 /\ SubSeq(plat, 1, 3) = <<"w", "i", "n">>
                    THEN Passed("windows", tk)
                    ELSE Passed("other", tk)
        IN  /\ api.keys = <<"recommended_backend:get_backend">>
            /\ api.status.backend = dflt
            /\ api.status.backend # <<>>

\* C36: a call entered with zero figures open, on a GUI backend and past the
\* tty gate, does nothing but return: it prints no prompt, whatever the
\* prompt argument, and starts no reader thread, so that nothing is left
\* reading standard input.
C36_NoFiguresNoSideEffect ==
    (PastGates /\ ValidTrigger(args.trigger) /\ h.figsAtEntry = 0) =>
        /\ h.prompts = 0
        /\ h.starts = 0
        /\ reader # "blocked"

DefaultPrompted == PastGates /\ args.prompt = "DEFAULT" /\ h.prompts = 1

\* C37 (as stated): the default prompt names the trigger that ends the wait:
\* "Press any key to exit..." only with the AnyKey detector in effect,
\* "Press Enter to exit..." whenever Enter semantics are in effect, also
\* after a fallback from AnyKey.
C37_DefaultPromptNamesEffectiveTrigger ==
    DefaultPrompted =>
        /\ mode \in {"win", "posix"} => h.promptText = "Press any key to exit..."
        /\ mode \in {"enter", "fallback"} => h.promptText = "Press Enter to exit..."

\* C37 (amended): the default prompt names the trigger that was asked for:
\* "Press any key to exit..." for trigger="AnyKey", also when the call falls
\* back to Enter semantics, and "Press Enter to exit..." for trigger="Enter".
C37_DefaultPromptNamesRequestedTrigger ==
    DefaultPrompted =>
        /\ args.trigger = "AnyKey" => h.promptText = "Press any key to exit..."
        /\ args.trigger = "Enter" => h.promptText = "Press Enter to exit..."
        /\ mode = "fallback" => h.promptText = "Press any key to exit..."
        /\ mode = "enter" => h.promptText = "Press Enter to exit..."

C37_Witness ==
    /\ Returned /\ DefaultPrompted
    /\ mode = "fallback" /\ h.exitReason = "flag"
    /\ h.promptText = "Press any key to exit..."

\* C38: in a sequence of calls with Enter semantics the line typed during a
\* call goes to that call's reader and ends the call: no reader left over
\* from an earlier call takes it.
C38_LineGoesToCurrentReader ==
    [][(/\ pc \notin {"idle", "done"}
        /\ mode \in {"enter", "fallback"}
        /\ reader = "blocked"
        /\ stdin = "line" /\ stdin' = "empty")
          => (reader' = "set" /\ entered')]_vars

ShowCalled == api.fn \in {"show", "refresh"}

\* C39: every ShowStatus returned by show or refresh, for every backend,
\* every block value and every outcome of plt.pause, plt.show and
\* raise_figure: nonblocking_used implies nonblocking_requested;
\* nonblocking_used is false on a non-GUI backend and for a blocking show;
\* backend is the backend string read at the start of the call.
C39_ShowStatusInvariants ==
    ShowCalled =>
        /\ api.status.nonblocking_used => api.status.nonblocking_requested
        /\ ~api.gui => ~api.status.nonblocking_used
        /\ (api.fn = "show" /\ api.block = "True") => ~api.status.nonblocking_used
        /\ [fn |-> "plt.show", arg |-> "()"] \in {api.calls[i] : i \in DOMAIN api.calls}
              => ~api.status.nonblocking_used
        /\ api.status.backend = (IF api.input.gb = "ok" THEN api.input.answer
                                 ELSE <<"u", "n", "k", "n", "o", "w", "n">>)

C39_Witness ==
    /\ api.fn = "show" /\ api.block = "None" /\ api.gui
    /\ api.failed = {"plt.pause"}
    /\ api.status.nonblocking_used /\ api.status.nonblocking_requested
    /\ api.status.backend = <<" ", "q", "t", "a", "g", "g", " ">>

\* the outcome of the Thread(...).start() call the setup made
StartOutcome == IF h.starts = 1 /\ h.threads = 0 THEN "raise" ELSE "ok"

\* C40: the trigger setup written inline in hold_windows behaves as the
\* detector pair of terminal.py in every environment: for Enter semantics as
\* _make_enterkey_checker (a failing thread start gives supported = False
\* and a warning, not an exception), for AnyKey as _make_anykey_checker
\* (same supported flag, same warning key).
C40_InlineSetupMatchesTerminal ==
    (PastGates /\ ValidTrigger(args.trigger) /\ pc \notin {"idle", "setup"}) =>
        /\ h.starts = 1 =>
              LET t == terminal_make_enterkey_checker(StartOutcome)
              IN  /\ h.threads = t.threads
                  /\ (h.exitReason = "thread_error") = t.raised
                  /\ t.key # "" => t.key \in warned
        /\ args.trigger = "AnyKey" =>
              \E p \in Platforms, i \in BOOLEAN, f \in BOOLEAN :
                  LET t == terminal_make_anykey_checker(p, i, f)
                  IN  /\ t.key = h.probe
                      /\ t.supported = (h.starts = 0)
                      /\ t.supported => t.kind = mode

====
